---- MODULE Spec2Model ----
(***************************************************************************)
(* Model of the hand keypoint transform component                          *)
(* (keypoint_transform.py: TransformHandPositionCoords) and of its frame   *)
(* logger (log_keypoints.py: KeypointLogger).                              *)
(*                                                                         *)
(* Numbers.  A 3-vector is a tuple <<x, y, z>> of integers, or NaNVec (the *)
(* vector numpy yields for 0/0).  A unit vector v/|v| is stored as the     *)
(* primitive integer vector parallel to v (Prim), so that normalisation,   *)
(* cross products and Gram-Schmidt projection are exact.  The poses fed to *)
(* the component have axis-aligned palms: their frames are true unit       *)
(* vectors and the rotated keypoints are integers.  A mean over n samples  *)
(* is the exact rational [num |-> elementwise sum, den |-> n].             *)
(***************************************************************************)
EXTENDS Integers, Sequences, FiniteSets, TLC

\* ------------------------------------------------------------------ bounds
MaxTicks == 2
MaxLimit == 2
MaxInterval == 2
MaxCoord == 1

\* ------------------------------------------------------- program constants
OCULUS_NUM_KEYPOINTS == 5
wrist_idx == 0
index_knuckle_idx == 1
middle_knuckle_idx == 2
pinky_knuckle_idx == 4
ABSOLUTE == 1
RELATIVE == 0
LEFT == "left"
RIGHT == "right"
TRANSFORMED_HAND_COORDS == "transformed_hand_coords"
TRANSFORMED_HAND_FRAME == "transformed_hand_frame"
SIGINT == "SIGINT"
SIGTERM == "SIGTERM"

\* ----------------------------------------------------------- vector algebra
NaNVec == <<>>
ZeroVec == <<0, 0, 0>>
IsNaN(v) == v = NaNVec

Abs(n) == IF n < 0 THEN -n ELSE n

RECURSIVE Gcd(_, _)
Gcd(a, b) == IF b = 0 THEN a ELSE Gcd(b, a % b)

VSub(a, b) == IF IsNaN(a) \/ IsNaN(b) THEN NaNVec
              ELSE <<a[1] - b[1], a[2] - b[2], a[3] - b[3]>>

VAdd(a, b) == IF IsNaN(a) \/ IsNaN(b) THEN NaNVec
              ELSE <<a[1] + b[1], a[2] + b[2], a[3] + b[3]>>

VScale(k, a) == IF IsNaN(a) THEN NaNVec ELSE <<k * a[1], k * a[2], k * a[3]>>

Dot(a, b) == a[1] * b[1] + a[2] * b[2] + a[3] * b[3]

Cross(a, b) == IF IsNaN(a) \/ IsNaN(b) THEN NaNVec
               ELSE <<a[2] * b[3] - a[3] * b[2],
                      a[3] * b[1] - a[1] * b[3],
                      a[1] * b[2] - a[2] * b[1]>>

\* The primitive integer vector with the direction of v (v is not zero).
Prim(v) ==
    LET g == Gcd(Gcd(Abs(v[1]), Abs(v[2])), Abs(v[3]))
    IN  <<v[1] \div g, v[2] \div g, v[3] \div g>>

\* vector / norm(vector); 0/0 is NaN.
normalize_vector(v) == IF IsNaN(v) \/ v = ZeroVec THEN NaNVec ELSE Prim(v)

\* --------------------------------------------------------------- arrays
\* An array of vectors is a sequence; the source indexes from 0.
At(arr, i) == arr[i + 1]

HasNaN(arr) == \E j \in 1..Len(arr) : IsNaN(arr[j])

\* ------------------------------------------------- frame construction
\* Mutant: the projection of y on x is added to y.
_orthogonalize_frame_ProjectionAdded(x_vec, y_vec, z_vec) ==
    LET x == normalize_vector(x_vec)
        y == IF IsNaN(x) \/ IsNaN(y_vec) THEN NaNVec
             ELSE normalize_vector(VAdd(VScale(Dot(x, x), y_vec),
                                        VScale(Dot(y_vec, x), x)))
        z == normalize_vector(Cross(x, y))
    IN  <<x, y, z>>

\* The arguments are unit vectors a/|a|, b/|b| stored as a, b.  The source's
\* y - dot(y, x) * x is then parallel to (a.a) b - (a.b) a.
_orthogonalize_frame(x_vec, y_vec, z_vec) ==
    LET x == normalize_vector(x_vec)
        y == IF IsNaN(x) \/ IsNaN(y_vec) THEN NaNVec
             ELSE normalize_vector(VSub(VScale(Dot(x, x), y_vec),
                                        VScale(Dot(y_vec, x), x)))
        z == normalize_vector(Cross(x, y))
    IN  <<x, y, z>>

\* (v1 + v2 + v3) / 3 has the direction of v1 + v2 + v3.
_get_stable_coord_frame(hand_coords) ==
    LET wrist == At(hand_coords, wrist_idx)
        v1 == VSub(At(hand_coords, index_knuckle_idx), wrist)
        v2 == VSub(At(hand_coords, pinky_knuckle_idx), wrist)
        v3 == VSub(At(hand_coords, middle_knuckle_idx), wrist)
        palm_normal == normalize_vector(Cross(v1, v3))
        palm_direction == normalize_vector(VAdd(VAdd(v1, v2), v3))
        cross_product == normalize_vector(Cross(palm_direction, palm_normal))
    IN  _orthogonalize_frame(cross_product, palm_direction, palm_normal)

\* Both branches of the source (right hand, left hand) compute the same frame.
_get_stable_hand_dir_frame(hand_side, hand_coords) ==
    LET wrist == At(hand_coords, wrist_idx)
        v1 == VSub(At(hand_coords, index_knuckle_idx), wrist)
        v2 == VSub(At(hand_coords, pinky_knuckle_idx), wrist)
        v3 == VSub(At(hand_coords, middle_knuckle_idx), wrist)
        palm_normal == normalize_vector(Cross(v1, v3))
        palm_direction == normalize_vector(VAdd(VAdd(v1, v2), v3))
        cross_product == normalize_vector(Cross(palm_direction, palm_normal))
        f == IF hand_side = RIGHT
             THEN _orthogonalize_frame(cross_product, palm_normal, palm_direction)
             ELSE _orthogonalize_frame(cross_product, palm_normal, palm_direction)
    IN  <<wrist, f[1], f[2], f[3]>>

\* np.linalg.solve(frame, eye(3)).T: the inverse of the matrix whose rows are
\* the frame's vectors, transposed, which is its cofactor matrix over its
\* determinant.  The rows are true unit vectors here (axis-aligned poses).
\* A NaN or singular frame has no inverse: every entry is NaN.
RotationMatrix(frame) ==
    LET det == Dot(frame[1], Cross(frame[2], frame[3]))
    IN  IF HasNaN(frame) THEN <<NaNVec, NaNVec, NaNVec>>
        ELSE IF det = 0 THEN <<NaNVec, NaNVec, NaNVec>>
        ELSE <<VScale(det, Cross(frame[2], frame[3])),
               VScale(det, Cross(frame[3], frame[1])),
               VScale(det, Cross(frame[1], frame[2]))>>

\* rotation_matrix @ p
Rotate(rotation_matrix, p) ==
    IF HasNaN(rotation_matrix) \/ IsNaN(p) THEN NaNVec
    ELSE <<Dot(rotation_matrix[1], p), Dot(rotation_matrix[2], p),
           Dot(rotation_matrix[3], p)>>

transform_keypoints(hand_side, hand_coords) ==
    LET translated_coords ==
            [j \in 1..Len(hand_coords) |-> VSub(hand_coords[j], At(hand_coords, 0))]
        original_coord_frame == _get_stable_coord_frame(translated_coords)
        rotation_matrix == RotationMatrix(original_coord_frame)
        transformed_keypoints ==
            [j \in 1..Len(hand_coords) |-> Rotate(rotation_matrix, translated_coords[j])]
        coordinate_frame == _get_stable_hand_dir_frame(hand_side, hand_coords)
    IN  [keypoints |-> transformed_keypoints, frame |-> coordinate_frame]

\* An operation of the transform is undefined on hand_coords: a 0/0
\* normalisation, and with it a solve on a matrix that has no inverse.
Degenerate(hand_coords) ==
    HasNaN(_get_stable_coord_frame(
        [j \in 1..Len(hand_coords) |-> VSub(hand_coords[j], At(hand_coords, 0))]))

\* ------------------------------------------------------ moving average
RECURSIVE SumAt(_, _)
SumAt(queue, j) ==
    IF queue = <<>> THEN ZeroVec
    ELSE VAdd(Head(queue)[j], SumAt(Tail(queue), j))

\* np.mean(queue, axis=0): the exact elementwise mean num/den; the mean of
\* an empty queue is the scalar NaN (num is empty, den is 0).
Mean(queue) ==
    IF queue = <<>> THEN [num |-> <<>>, den |-> 0]
    ELSE [num |-> [j \in 1..Len(queue[1]) |-> SumAt(queue, j)], den |-> Len(queue)]

moving_average(vector, moving_average_queue, limit) ==
    LET appended == Append(moving_average_queue, vector)
        queue == IF Len(appended) > limit THEN Tail(appended) ELSE appended
    IN  [queue |-> queue, mean |-> Mean(queue)]

\* ---------------------------------------------------------------- logger
\* The log file: absent until the first successful open; a dump that fails
\* after the file was opened for writing leaves it truncated (not intact).
NoFile == [exists |-> FALSE, intact |-> FALSE, total_frames |-> 0, frames |-> <<>>]

WriteOutcomes == {"ok", "open_fail", "dump_fail"}

NoLogger ==
    [present |-> FALSE, hand_side |-> "", auto_save_interval |-> 0,
     moving_average_limit |-> 0, frame_counter |-> 0, logged_data |-> <<>>,
     log_file |-> NoFile]

KeypointLogger(hand_side, auto_save_interval, moving_average_limit) ==
    [present |-> TRUE, hand_side |-> hand_side,
     auto_save_interval |-> auto_save_interval,
     moving_average_limit |-> moving_average_limit,
     frame_counter |-> 0, logged_data |-> <<>>, log_file |-> NoFile]

\* write is what the file system does with this save: the exception of a
\* failed open or dump is caught and logged.
save_data(lg, write) ==
    IF Len(lg.logged_data) = 0 THEN lg
    ELSE IF write = "ok"
    THEN [lg EXCEPT !.log_file = [exists |-> TRUE, intact |-> TRUE,
                                  total_frames |-> Len(lg.logged_data),
                                  frames |-> lg.logged_data]]
    ELSE IF write = "open_fail"
    THEN lg
    ELSE [lg EXCEPT !.log_file = [exists |-> TRUE, intact |-> FALSE,
                                  total_frames |-> 0, frames |-> <<>>]]

\* Mutant: the frame_id is the frame's place in the buffer.
log_frame_IdFromBuffer(lg, keypoints, coordinate_frame, now, write) ==
    LET frame_data == [frame_id |-> Len(lg.logged_data), timestamp |-> now,
                       keypoints |-> keypoints,
                       coordinate_frame |-> coordinate_frame]
        logged == [lg EXCEPT !.logged_data = Append(@, frame_data),
                             !.frame_counter = @ + 1]
    IN  IF lg.auto_save_interval = 0
        THEN [logger |-> logged, raised |-> TRUE]
        ELSE IF logged.frame_counter % lg.auto_save_interval = 0
        THEN [logger |-> [save_data(logged, write) EXCEPT !.logged_data = <<>>],
              raised |-> FALSE]
        ELSE [logger |-> logged, raised |-> FALSE]

\* Mutant: the interval is tested on the count before the frame is counted.
log_frame_SaveBeforeCount(lg, keypoints, coordinate_frame, now, write) ==
    LET frame_data == [frame_id |-> lg.frame_counter, timestamp |-> now,
                       keypoints |-> keypoints,
                       coordinate_frame |-> coordinate_frame]
        logged == [lg EXCEPT !.logged_data = Append(@, frame_data),
                             !.frame_counter = @ + 1]
    IN  IF lg.auto_save_interval = 0
        THEN [logger |-> logged, raised |-> TRUE]
        ELSE IF lg.frame_counter % lg.auto_save_interval = 0
        THEN [logger |-> [save_data(logged, write) EXCEPT !.logged_data = <<>>],
              raised |-> FALSE]
        ELSE [logger |-> logged, raised |-> FALSE]

\* Mutant: the exception of a failed write is not caught in save_data and
\* leaves log_frame.
log_frame_SaveRaises(lg, keypoints, coordinate_frame, now, write) ==
    LET frame_data == [frame_id |-> lg.frame_counter, timestamp |-> now,
                       keypoints |-> keypoints,
                       coordinate_frame |-> coordinate_frame]
        logged == [lg EXCEPT !.logged_data = Append(@, frame_data),
                             !.frame_counter = @ + 1]
    IN  IF lg.auto_save_interval = 0
        THEN [logger |-> logged, raised |-> TRUE]
        ELSE IF logged.frame_counter % lg.auto_save_interval = 0
        THEN IF write = "ok"
             THEN [logger |-> [save_data(logged, write) EXCEPT !.logged_data = <<>>],
                   raised |-> FALSE]
             ELSE [logger |-> save_data(logged, write), raised |-> TRUE]
        ELSE [logger |-> logged, raised |-> FALSE]

\* Returns the logger and whether the call raised (ZeroDivisionError of
\* frame_counter % 0).
log_frame(lg, keypoints, coordinate_frame, now, write) ==
    LET frame_data == [frame_id |-> lg.frame_counter, timestamp |-> now,
                       keypoints |-> keypoints,
                       coordinate_frame |-> coordinate_frame]
        logged == [lg EXCEPT !.logged_data = Append(@, frame_data),
                             !.frame_counter = @ + 1]
    IN  IF lg.auto_save_interval = 0
        THEN [logger |-> logged, raised |-> TRUE]
        ELSE IF logged.frame_counter % lg.auto_save_interval = 0
        THEN [logger |-> [save_data(logged, write) EXCEPT !.logged_data = <<>>],
              raised |-> FALSE]
        ELSE [logger |-> logged, raised |-> FALSE]

\* ------------------------------------------------------------- instances
Inst == {"i1", "i2"}

Host == "host"
SubPort == "keypoint_sub_port"
PubPort == "keypoint_transform_pub_port"

Args(hand_side, moving_average_limit, enable_logging, auto_save_interval) ==
    [host |-> Host, keypoint_sub_port |-> SubPort,
     keypoint_transform_pub_port |-> PubPort, hand_side |-> hand_side,
     moving_average_limit |-> moving_average_limit,
     enable_logging |-> enable_logging,
     auto_save_interval |-> auto_save_interval]

NoArgs == Args("", 0, FALSE, 0)

NaNScalar == [num |-> <<>>, den |-> 0]

\* An object that does not exist (yet).  state is where the object is in its
\* life: "none", "config_error" (the constructor raised), "constructed",
\* "streaming" (inside stream()), "crashed" (stream() raised error).
\* args, tick_no, calls and hist are history: the constructor's arguments,
\* the ticks begun, the calls the last tick made on its collaborators, and
\* the samples the ticks fed to the moving averages.
NoInstance ==
    [state |-> "none", error |-> "", args |-> NoArgs,
     hand_side |-> "", host |-> "", keypoint_sub_port |-> "",
     keypoint_transform_pub_port |-> "",
     keypoint_subscriber |-> "none", publisher_manager |-> FALSE,
     coords_topic |-> <<>>, frame_topic |-> <<>>,
     absolute_mode |-> ABSOLUTE, relative_mode |-> RELATIVE,
     timer |-> FALSE, moving_average_limit |-> 0,
     coord_moving_average_queue |-> <<>>, frame_moving_average_queue |-> <<>>,
     averaged_keypoints |-> NaNScalar, averaged_coordinate_frame |-> <<>>,
     keypoint_logger |-> NoLogger,
     tick_no |-> 0, calls |-> <<>>, hist |-> <<>>]

\* TransformHandPositionCoords.__init__
Construct(args) ==
    IF args.hand_side \notin {LEFT, RIGHT}
    THEN [NoInstance EXCEPT !.state = "config_error", !.error = "ValueError",
                            !.args = args]
    ELSE [NoInstance EXCEPT
            !.state = "constructed", !.args = args,
            !.hand_side = args.hand_side, !.host = args.host,
            !.keypoint_sub_port = args.keypoint_sub_port,
            !.keypoint_transform_pub_port = args.keypoint_transform_pub_port,
            !.keypoint_subscriber = "open", !.publisher_manager = TRUE,
            !.coords_topic = IF args.hand_side = RIGHT
                             THEN <<RIGHT, TRANSFORMED_HAND_COORDS>>
                             ELSE <<LEFT, TRANSFORMED_HAND_COORDS>>,
            !.frame_topic = IF args.hand_side = RIGHT
                            THEN <<RIGHT, TRANSFORMED_HAND_FRAME>>
                            ELSE <<LEFT, TRANSFORMED_HAND_FRAME>>,
            !.absolute_mode = ABSOLUTE, !.relative_mode = RELATIVE,
            !.timer = TRUE,
            !.moving_average_limit = args.moving_average_limit,
            !.coord_moving_average_queue = <<>>,
            !.frame_moving_average_queue = <<>>,
            !.keypoint_logger =
                IF args.enable_logging
                THEN KeypointLogger(args.hand_side, args.auto_save_interval,
                                    args.moving_average_limit)
                ELSE NoLogger]

\* ----------------------------------------------------------- acquisition
\* What recv_keypoints returns: None, or an InputFrame.
NoFrame == [present |-> FALSE, keypoints |-> <<>>, is_relative |-> FALSE]

Frame(keypoints, is_relative) ==
    [present |-> TRUE, keypoints |-> keypoints, is_relative |-> is_relative]

\* Mutant: no test for None before the frame's keypoints are read.
_get_hand_coords_NoNoneTest(self, input_frame) ==
    IF Len(input_frame.keypoints) # OCULUS_NUM_KEYPOINTS
    THEN [raised |-> TRUE, none |-> FALSE, data_type |-> self.absolute_mode,
          hand_coords |-> <<>>]
    ELSE [raised |-> FALSE, none |-> FALSE,
          data_type |-> IF input_frame.is_relative THEN self.relative_mode
                        ELSE self.absolute_mode,
          hand_coords |-> input_frame.keypoints]

\* Returns (None, None), or raises the ValueError of reshape when the frame
\* does not hold OCULUS_NUM_KEYPOINTS points, or returns (data_type, coords).
_get_hand_coords(self, input_frame) ==
    IF ~input_frame.present
    THEN [raised |-> FALSE, none |-> TRUE, data_type |-> self.absolute_mode,
          hand_coords |-> <<>>]
    ELSE IF Len(input_frame.keypoints) # OCULUS_NUM_KEYPOINTS
    THEN [raised |-> TRUE, none |-> FALSE, data_type |-> self.absolute_mode,
          hand_coords |-> <<>>]
    ELSE [raised |-> FALSE, none |-> FALSE,
          data_type |-> IF input_frame.is_relative THEN self.relative_mode
                        ELSE self.absolute_mode,
          hand_coords |-> input_frame.keypoints]

\* ------------------------------------------------------------ the inputs
\* A hand: the wrist w, then index, middle, ring and pinky knuckles at
\* w + v1, w + v3, w + r, w + v2.
Pose(w, v1, v3, r, v2) == <<w, VAdd(w, v1), VAdd(w, v3), VAdd(w, r), VAdd(w, v2)>>

\* Three hands of different shapes, palm up, pointing along +y, -x and -y.
PoseA == Pose(<<0, 0, 0>>, <<1, 1, 0>>, <<0, 1, 0>>, <<0, 2, 1>>, <<-1, 1, 0>>)
PoseB == Pose(<<1, 0, 0>>, <<-1, 2, 0>>, <<-1, 0, 0>>, <<-2, 0, 1>>, <<-1, -2, 0>>)
PoseC == Pose(<<0, 1, 0>>, <<-1, -1, 0>>, <<0, -1, 0>>, <<0, -3, 2>>, <<1, -1, 0>>)
\* The index knuckle in the wrist, the other two knuckles on one line with it.
PoseDegenerate == Pose(<<0, 0, 1>>, ZeroVec, <<1, 0, 0>>, <<0, 1, 0>>, <<2, 0, 0>>)
\* A frame one keypoint short.
Malformed == SubSeq(PoseA, 1, OCULUS_NUM_KEYPOINTS - 1)

ValidPoses == {PoseA, PoseB, PoseC}

Inputs ==
    {NoFrame, Frame(PoseA, FALSE), Frame(PoseB, TRUE), Frame(PoseC, FALSE),
     Frame(PoseDegenerate, TRUE), Frame(Malformed, FALSE)}

Poses == ValidPoses \cup {PoseDegenerate}

\* transform_keypoints and Degenerate, tabulated over the poses (the model
\* checker evaluates a table once).
Transformed ==
    [h \in {LEFT, RIGHT} |-> [p \in Poses |-> transform_keypoints(h, p)]]

DegenerateAt == [p \in Poses |-> Degenerate(p)]

HandSides == {LEFT, RIGHT, "both"}

ArgsSet ==
    {Args(h, k, FALSE, MaxInterval) : h \in HandSides, k \in 0..MaxLimit}
    \cup {Args(h, k, TRUE, m) : h \in HandSides, k \in 0..MaxLimit,
                                 m \in 0..MaxInterval}

\* ------------------------------------------------------------ stream()
Call(op, arg) == [op |-> op, arg |-> arg]

\* An exception leaves stream(): the loop is over.
Raise(self, error) ==
    [self EXCEPT !.state = "crashed", !.error = error,
                 !.calls = Append(@, Call("raise", error))]

\* ZMQPublisherManager.publish: the call is made; a failed send delivers
\* nothing and is not raised to the caller.
publish(self, host, port, topic, data, delivered) ==
    [self EXCEPT !.calls = Append(@, Call("publish",
        [host |-> host, port |-> port, topic |-> topic, data |-> data,
         delivered |-> delivered]))]

\* Mutant: the keypoints are averaged in the frame queue.
SmoothKeypoints_FrameQueue(self, transformed_keypoints) ==
    moving_average(transformed_keypoints, self.frame_moving_average_queue,
                   self.moving_average_limit)

SmoothKeypoints(self, transformed_keypoints) ==
    moving_average(transformed_keypoints, self.coord_moving_average_queue,
                   self.moving_average_limit)

\* Mutant: the frame window is one longer than the limit.
SmoothFrame_OffByOne(self, coordinate_frame) ==
    moving_average(coordinate_frame, self.frame_moving_average_queue,
                   self.moving_average_limit + 1)

SmoothFrame(self, coordinate_frame) ==
    moving_average(coordinate_frame, self.frame_moving_average_queue,
                   self.moving_average_limit)

\* normalize_vector of the mean num/den is normalize_vector of num.
\* The frame the tick publishes: [origin, x_vec, y_vec, z_vec].
Reorthogonalize(mean) ==
    LET origin == [num |-> mean.num[1], den |-> mean.den]
        x_vec == normalize_vector(mean.num[2])
        y_vec == normalize_vector(mean.num[3])
        z_vec == normalize_vector(mean.num[4])
        f == _orthogonalize_frame(x_vec, y_vec, z_vec)
    IN  <<origin, f[1], f[2], f[3]>>

\* Re-orthogonalizing mean divides 0 by 0: a mean vector is zero, or the
\* mean y has nothing left after the projection on the mean x.
ReorthogonalizeUndefined(mean) ==
    \/ \E k \in 2..4 : mean.num[k] = ZeroVec
    \/ /\ ~HasNaN(<<mean.num[2], mean.num[3]>>)
       /\ LET x == Prim(mean.num[2])
              y == Prim(mean.num[3])
          IN  VSub(VScale(Dot(x, x), y), VScale(Dot(y, x), x)) = ZeroVec

\* Mutant: the flag is decoded against the wrong mode.
OutputRecord_AbsoluteMode(self, now, data_type) ==
    [timestamp_s |-> now, hand_side |-> self.hand_side,
     keypoints |-> self.averaged_keypoints,
     is_relative |-> (data_type = self.absolute_mode),
     frame_vectors |-> self.averaged_coordinate_frame]

OutputRecord(self, now, data_type) ==
    [timestamp_s |-> now, hand_side |-> self.hand_side,
     keypoints |-> self.averaged_keypoints,
     is_relative |-> (data_type = self.relative_mode),
     frame_vectors |-> self.averaged_coordinate_frame]

PublishCoords(self, data, delivered) ==
    publish(self, self.host, self.keypoint_transform_pub_port,
            self.coords_topic, data, delivered)

PublishFrame(self, data, delivered) ==
    publish(self, self.host, self.keypoint_transform_pub_port,
            self.frame_topic, data, delivered)

\* _log_frame: returns the instance and whether the logger's call raised.
_log_frame(self, keypoints, coordinate_frame, now, write) ==
    IF self.keypoint_logger.present
    THEN LET r == log_frame(self.keypoint_logger, keypoints, coordinate_frame,
                            now, write)
         IN  [self |-> [self EXCEPT !.keypoint_logger = r.logger,
                                    !.calls = Append(@, Call("log_frame",
                                        [keypoints |-> keypoints,
                                         coordinate_frame |-> coordinate_frame]))],
              raised |-> r.raised]
    ELSE [self |-> self, raised |-> FALSE]

\* Mutant: a send that fails raises out of publish, and so out of stream().
Emit_PublishRaises(self, now, data_type, publish_fail, write) ==
    LET data == OutputRecord(self, now, data_type)
        p1 == PublishCoords(self, data, publish_fail # "coords")
        lg == _log_frame(p1, p1.averaged_keypoints, p1.averaged_coordinate_frame,
                         now, write)
        p2 == PublishFrame(lg.self, data, publish_fail # "frame")
    IN  IF publish_fail = "coords" THEN Raise(p1, "TransportError")
        ELSE IF lg.raised THEN Raise(lg.self, "ZeroDivisionError")
        ELSE IF publish_fail = "frame" THEN Raise(p2, "TransportError")
        ELSE [p2 EXCEPT !.calls = Append(@, Call("end_loop", now))]

\* Lines 257-283: build the record, publish, log, publish, end the tick.
Emit(self, now, data_type, publish_fail, write) ==
    LET data == OutputRecord(self, now, data_type)
        p1 == PublishCoords(self, data, publish_fail # "coords")
        lg == _log_frame(p1, p1.averaged_keypoints, p1.averaged_coordinate_frame,
                         now, write)
        p2 == PublishFrame(lg.self, data, publish_fail # "frame")
    IN  IF lg.raised THEN Raise(lg.self, "ZeroDivisionError")
        ELSE [p2 EXCEPT !.calls = Append(@, Call("end_loop", now))]

\* Lines 229-255: both moving averages, then the re-orthogonalization.
\* Indexing the scalar NaN that is the mean of an empty queue raises.
Smooth(self, now, data_type, t, undef, publish_fail, write) ==
    LET ka == SmoothKeypoints(self, t.keypoints)
        fa == SmoothFrame(self, t.frame)
        averaged == [self EXCEPT
                        !.coord_moving_average_queue = ka.queue,
                        !.frame_moving_average_queue = fa.queue,
                        !.averaged_keypoints = ka.mean,
                        !.averaged_coordinate_frame = fa.mean,
                        !.hist = Append(@, t)]
    IN  IF fa.mean.den = 0 THEN Raise(averaged, "IndexError")
        ELSE IF ReorthogonalizeUndefined(fa.mean) /\ undef = "raise"
        THEN Raise(averaged, "FloatingPointError")
        ELSE Emit([averaged EXCEPT
                      !.averaged_coordinate_frame = Reorthogonalize(fa.mean)],
                  now, data_type, publish_fail, write)

\* One pass of the loop of stream().  undef is what an undefined operation
\* (0/0, the solve of a matrix with no inverse) does in this tick: it raises,
\* or it yields NaN.
StreamTick(self, input_frame, undef, publish_fail, write) ==
    LET now == self.tick_no + 1
        entered == [self EXCEPT !.tick_no = now,
                                !.calls = <<Call("start_loop", now),
                                            Call("recv_keypoints", input_frame)>>]
        got == _get_hand_coords(self, input_frame)
    IN  IF got.raised THEN Raise(entered, "ValueError")
        ELSE IF got.none
        THEN [entered EXCEPT !.calls = Append(@, Call("end_loop", now))]
        ELSE IF DegenerateAt[got.hand_coords] /\ undef = "raise"
        THEN Raise(entered, "LinAlgError")
        ELSE Smooth(entered, now, got.data_type,
                    Transformed[self.hand_side][got.hand_coords],
                    undef, publish_fail, write)

\* cleanup(): the logger's save, the subscriber's stop.
cleanup(self, write) ==
    [self EXCEPT !.keypoint_logger = IF @.present THEN save_data(@, write) ELSE @,
                 !.keypoint_subscriber = "stopped"]

\* ------------------------------------------------------------- the state
\* No call of _orthogonalize_frame on its own is under way.
NoCall == [x_vec |-> NaNVec, y_vec |-> NaNVec, z_vec |-> NaNVec, returned |-> <<>>]

VARIABLES
    inst,             \* the TransformHandPositionCoords objects, by name
    proc,             \* the process: "alive", "exited" or "killed"
    signal_handlers,  \* per signal: "default", or the instance whose logger's handler is installed
    atexit_registry,  \* the instances whose logger's save_data is registered with atexit
    zmq_cleaned,      \* cleanup_zmq_resources() was called
    ortho_call        \* a call of _orthogonalize_frame on its own: arguments and results

vars == <<inst, proc, signal_handlers, atexit_registry, zmq_cleaned, ortho_call>>

Init ==
    /\ inst = [i \in Inst |-> NoInstance]
    /\ proc = "alive"
    /\ signal_handlers = [sig \in {SIGINT, SIGTERM} |-> "default"]
    /\ atexit_registry = <<>>
    /\ zmq_cleaned = FALSE
    /\ ortho_call = NoCall

\* The process constructs instance i.  A logger registers its handler for
\* both signals, replacing the handler in place, and its save with atexit.
DoConstruct(i, args) ==
    /\ proc = "alive"
    /\ inst[i].state = "none"
    /\ inst' = [inst EXCEPT ![i] = Construct(args)]
    /\ IF inst'[i].keypoint_logger.present
       THEN /\ signal_handlers' = [sig \in {SIGINT, SIGTERM} |-> i]
            /\ atexit_registry' = Append(atexit_registry, i)
       ELSE UNCHANGED <<signal_handlers, atexit_registry>>
    /\ UNCHANGED <<proc, zmq_cleaned, ortho_call>>

\* The process calls stream() of instance i (whose subscriber was not stopped).
StartStream(i) ==
    /\ proc = "alive"
    /\ inst[i].state = "constructed"
    /\ inst[i].keypoint_subscriber = "open"
    /\ inst' = [inst EXCEPT ![i].state = "streaming"]
    /\ UNCHANGED <<proc, signal_handlers, atexit_registry, zmq_cleaned, ortho_call>>

Tick(i, input_frame, undef, publish_fail, write) ==
    /\ proc = "alive"
    /\ inst[i].state = "streaming"
    /\ inst[i].tick_no < MaxTicks
    /\ inst' = [inst EXCEPT ![i] = StreamTick(@, input_frame, undef, publish_fail, write)]
    /\ UNCHANGED <<proc, signal_handlers, atexit_registry, zmq_cleaned, ortho_call>>

\* The owner calls cleanup() of an instance whose loop is not running.
DoCleanup(i, write) ==
    /\ proc = "alive"
    /\ inst[i].state \in {"constructed", "crashed"}
    /\ inst[i].keypoint_subscriber = "open"
    /\ inst' = [inst EXCEPT ![i] = cleanup(@, write)]
    /\ zmq_cleaned' = TRUE
    /\ UNCHANGED <<proc, signal_handlers, atexit_registry, ortho_call>>

\* What is left of an object when its process has ended: the memory of the
\* loop is gone; how the object ended, its subscriber and its logger (the
\* buffer as it was, and the file) are kept.
Dead(self) ==
    [self EXCEPT !.coord_moving_average_queue = <<>>,
                 !.frame_moving_average_queue = <<>>,
                 !.averaged_keypoints = NaNScalar,
                 !.averaged_coordinate_frame = <<>>,
                 !.tick_no = 0, !.calls = <<>>, !.hist = <<>>]

\* save_data of the loggers in reg, last registered first.
RECURSIVE RunAtexit(_, _, _)
RunAtexit(objs, reg, write) ==
    IF reg = <<>> THEN objs
    ELSE LET i == reg[Len(reg)]
         IN  RunAtexit([objs EXCEPT ![i].keypoint_logger = save_data(@, write)],
                       SubSeq(reg, 1, Len(reg) - 1), write)

\* The interpreter exits (no loop is running): the atexit callbacks run;
\* then the objects that still exist are finalized, __del__ calling
\* cleanup(), which Python does not guarantee at exit (del_runs).
ProcessExit(del_runs, write) ==
    /\ proc = "alive"
    /\ \A i \in Inst : inst[i].state # "streaming"
    /\ LET saved == RunAtexit(inst, atexit_registry, write)
           Finalized(i) == del_runs /\ saved[i].state \in {"constructed", "crashed"}
       IN  /\ inst' = [i \in Inst |-> IF Finalized(i)
                                      THEN Dead(cleanup(saved[i], write))
                                      ELSE Dead(saved[i])]
           /\ zmq_cleaned' = (zmq_cleaned \/ \E i \in Inst : Finalized(i))
    /\ proc' = "exited"
    /\ UNCHANGED <<signal_handlers, atexit_registry, ortho_call>>

\* A termination signal arrives.  A logger's handler saves, restores the
\* default handler and raises the signal again, which ends the process at
\* once.  With no handler installed SIGTERM ends the process at once and
\* SIGINT raises KeyboardInterrupt in the running loop.
Signal(sig, write) ==
    /\ proc = "alive"
    /\ IF signal_handlers[sig] # "default"
       THEN /\ inst' = [i \in Inst |->
                          IF i = signal_handlers[sig]
                          THEN Dead([inst[i] EXCEPT !.keypoint_logger =
                                        save_data(@, write)])
                          ELSE Dead(inst[i])]
            /\ signal_handlers' = [signal_handlers EXCEPT ![sig] = "default"]
            /\ proc' = "killed"
       ELSE IF sig = SIGTERM
       THEN /\ proc' = "killed"
            /\ inst' = [i \in Inst |-> Dead(inst[i])]
            /\ UNCHANGED signal_handlers
       ELSE /\ inst' = [i \in Inst |->
                          IF inst[i].state = "streaming"
                          THEN Raise(inst[i], "KeyboardInterrupt")
                          ELSE inst[i]]
            /\ UNCHANGED <<proc, signal_handlers>>
    /\ UNCHANGED <<atexit_registry, zmq_cleaned, ortho_call>>

\* The choices that make a difference: the outcome of a write where a save
\* writes, of an undefined operation where one occurs, of a send where the
\* tick has a frame.
Writes(objs, ids) ==
    IF \E i \in ids : objs[i].keypoint_logger.present
                      /\ objs[i].keypoint_logger.logged_data # <<>>
    THEN WriteOutcomes ELSE {"ok"}

TickWrites(self) ==
    IF /\ self.keypoint_logger.present
       /\ self.keypoint_logger.auto_save_interval > 0
       /\ (self.keypoint_logger.frame_counter + 1)
              % self.keypoint_logger.auto_save_interval = 0
    THEN WriteOutcomes ELSE {"ok"}

TickUndefined(self, input_frame) ==
    IF /\ self.state = "streaming"
       /\ input_frame.present
       /\ Len(input_frame.keypoints) = OCULUS_NUM_KEYPOINTS
       /\ \/ DegenerateAt[input_frame.keypoints]
          \/ LET fa == SmoothFrame(self, Transformed[self.hand_side][
                                         input_frame.keypoints].frame)
             IN  fa.mean.den > 0 /\ ReorthogonalizeUndefined(fa.mean)
    THEN {"nan", "raise"} ELSE {"nan"}

TickSends(input_frame) ==
    IF input_frame.present THEN {"none", "coords", "frame"} ELSE {"none"}

\* One hand-side instance in the process.
Hosted == {"i1"}

Next ==
    \/ \E i \in Hosted, args \in ArgsSet : DoConstruct(i, args)
    \/ \E i \in Hosted : StartStream(i)
    \/ \E i \in Hosted, input_frame \in Inputs :
          \E undef \in TickUndefined(inst[i], input_frame),
             publish_fail \in TickSends(input_frame),
             write \in TickWrites(inst[i]) :
             Tick(i, input_frame, undef, publish_fail, write)
    \/ \E i \in Hosted : \E write \in Writes(inst, {i}) : DoCleanup(i, write)
    \/ \E sig \in {SIGTERM, SIGINT} :
          \E write \in Writes(inst, {signal_handlers[sig]} \cap Inst) :
             Signal(sig, write)
    \/ \E del_runs \in BOOLEAN, write \in Writes(inst, Inst) :
          ProcessExit(del_runs, write)

Spec == Init /\ [][Next]_vars

\* ------------------------------------------- two instances, one process
\* The left and the right instance constructed in one process, with valid
\* configurations; the loops run in threads of the process (a tick touches
\* its own object only).  The file system accepts every write, every send is
\* delivered and the frames are absent or PoseA.
ArgsTwo(i) ==
    LET hand_side == IF i = "i1" THEN LEFT ELSE RIGHT
    IN  {Args(hand_side, 1, FALSE, MaxInterval)}
        \cup {Args(hand_side, 1, TRUE, m) : m \in 1..MaxInterval}

InputsTwo == {NoFrame, Frame(PoseA, FALSE)}

NextTwo ==
    \/ \E i \in Inst : \E args \in ArgsTwo(i) : DoConstruct(i, args)
    \/ \E i \in Inst : StartStream(i)
    \/ \E i \in Inst, input_frame \in InputsTwo :
          Tick(i, input_frame, "nan", "none", "ok")
    \/ \E i \in Inst : DoCleanup(i, "ok")
    \/ \E sig \in {SIGTERM, SIGINT} : Signal(sig, "ok")
    \/ \E del_runs \in BOOLEAN : ProcessExit(del_runs, "ok")

SpecTwo == Init /\ [][NextTwo]_vars

\* ------------------------------------------ the orthogonalizer on its own
\* _orthogonalize_frame is called with three vectors of small integer
\* coordinates (z_vec is along x × y, against it, or y itself), and then
\* again with what it returned.
Vectors ==
    {<<a, b, c>> : a \in -MaxCoord..MaxCoord, b \in -MaxCoord..MaxCoord,
                   c \in -MaxCoord..MaxCoord}

InitOrtho ==
    /\ inst = [i \in Inst |-> NoInstance]
    /\ proc = "alive"
    /\ signal_handlers = [sig \in {SIGINT, SIGTERM} |-> "default"]
    /\ atexit_registry = <<>>
    /\ zmq_cleaned = FALSE
    /\ \E x_vec \in Vectors, y_vec \in Vectors :
          \E z_vec \in {Cross(x_vec, y_vec), Cross(y_vec, x_vec), y_vec} :
             ortho_call = [x_vec |-> x_vec, y_vec |-> y_vec, z_vec |-> z_vec,
                           returned |-> <<>>]

Orthogonalize ==
    /\ Len(ortho_call.returned) < 2
    /\ LET f == IF ortho_call.returned = <<>>
                THEN <<ortho_call.x_vec, ortho_call.y_vec, ortho_call.z_vec>>
                ELSE ortho_call.returned[Len(ortho_call.returned)]
       IN  ortho_call' = [ortho_call EXCEPT !.returned =
                             Append(@, _orthogonalize_frame(f[1], f[2], f[3]))]
    /\ UNCHANGED <<inst, proc, signal_handlers, atexit_registry, zmq_cleaned>>

NextOrtho == Orthogonalize

SpecOrtho == InitOrtho /\ [][NextOrtho]_vars

\* ================================================================ claims
\* The instances whose last tick can be observed: the process is alive and
\* the instance has begun a tick.
Ticked == {i \in Inst : proc = "alive" /\ inst[i].tick_no > 0}

\* What the last tick acquired, and the calls it made.
Acquired(self) == self.calls[2].arg
CallsOf(self, op) == SelectSeq(self.calls, LAMBDA c : c.op = op)
Ops(self) == [k \in 1..Len(self.calls) |-> self.calls[k].op]

\* The last tick reached the moving averages.
Smoothed(self) ==
    /\ Acquired(self).present
    /\ self.error \notin {"ValueError", "LinAlgError"}

\* The last n elements of seq.
LastN(seq, n) ==
    IF Len(seq) <= n THEN seq ELSE SubSeq(seq, Len(seq) - n + 1, Len(seq))

Min(a, b) == IF a < b THEN a ELSE b

\* Step i: instance i takes a tick in this step.
TickStep(i) ==
    /\ proc' = "alive"
    /\ inst'[i].tick_no = inst[i].tick_no + 1

\* ---- C1 ----------------------------------------------------------------
\* C1: in every reachable state both sliding windows of an instance hold at
\* most K = moving_average_limit samples, and a tick that appends a sample
\* to a window holding K samples removes the oldest one: the window becomes
\* its tail followed by the transform of the frame the tick acquired.
C1_Bounded ==
    \A i \in Inst :
        /\ Len(inst[i].coord_moving_average_queue) <= inst[i].moving_average_limit
        /\ Len(inst[i].frame_moving_average_queue) <= inst[i].moving_average_limit

C1_Fifo(old, new, limit, sample) ==
    \/ Len(old) < limit /\ new = Append(old, sample)
    \/ Len(old) = limit /\ limit > 0 /\ new = Append(Tail(old), sample)
    \/ limit = 0 /\ new = <<>>

C1_Step ==
    \A i \in Inst :
        TickStep(i) /\ Smoothed(inst'[i]) =>
            LET t == transform_keypoints(inst[i].hand_side,
                                         Acquired(inst'[i]).keypoints)
            IN  /\ C1_Fifo(inst[i].coord_moving_average_queue,
                           inst'[i].coord_moving_average_queue,
                           inst[i].moving_average_limit, t.keypoints)
                /\ C1_Fifo(inst[i].frame_moving_average_queue,
                           inst'[i].frame_moving_average_queue,
                           inst[i].moving_average_limit, t.frame)

RECURSIVE C2_Sum(_, _, _)
C2_Sum(samples, j, n) ==
    IF n = 0 THEN ZeroVec ELSE VAdd(C2_Sum(samples, j, n - 1), samples[n][j])

C2_ExactMean(samples) ==
    [num |-> [j \in 1..Len(samples[1]) |-> C2_Sum(samples, j, Len(samples))],
     den |-> Len(samples)]

C3_NoDataStep ==
    \A i \in Inst :
        TickStep(i) /\ ~Acquired(inst'[i]).present =>
            /\ Ops(inst'[i]) = <<"start_loop", "recv_keypoints", "end_loop">>
            /\ inst'[i].coord_moving_average_queue = inst[i].coord_moving_average_queue
            /\ inst'[i].frame_moving_average_queue = inst[i].frame_moving_average_queue
            /\ inst'[i].averaged_keypoints = inst[i].averaged_keypoints
            /\ inst'[i].keypoint_logger = inst[i].keypoint_logger
            /\ inst'[i].hist = inst[i].hist
            /\ inst'[i].state = "streaming"
            /\ inst'[i].error = ""

C3_NoDataTick == [][C3_NoDataStep]_vars

\* A tick with no data after a tick that filled the windows.
C3_Witness ==
    \E i \in Ticked :
        /\ ~Acquired(inst[i]).present
        /\ inst[i].tick_no = 2
        /\ Len(inst[i].coord_moving_average_queue) = 1
        /\ inst[i].state = "streaming"

\* A configuration with a valid hand side, window size and save interval.
ValidArgs(args) ==
    /\ args.hand_side \in {LEFT, RIGHT}
    /\ args.moving_average_limit >= 1
    /\ args.enable_logging => args.auto_save_interval >= 1

\* ---- C4 ----------------------------------------------------------------
WellFormed(input_frame) ==
    input_frame.present /\ Len(input_frame.keypoints) = OCULUS_NUM_KEYPOINTS

\* C4: a tick that acquires a frame whose keypoint count is not
\* OCULUS_NUM_KEYPOINTS is skipped: nothing is published, one warning is
\* emitted, the tick ends and the loop keeps running (stated for the valid
\* configurations).
C4_MalformedSkipped ==
    \A i \in Ticked :
        /\ ValidArgs(inst[i].args)
        /\ Acquired(inst[i]).present
        /\ ~WellFormed(Acquired(inst[i]))
        =>
            /\ inst[i].state = "streaming"
            /\ CallsOf(inst[i], "publish") = <<>>
            /\ Len(CallsOf(inst[i], "warning")) = 1
            /\ inst[i].calls[Len(inst[i].calls)].op = "end_loop"

\* ---- C5 ----------------------------------------------------------------
QueueHasNaN(queue) == \E k \in 1..Len(queue) : HasNaN(queue[k])

\* C5: a tick that acquires a frame with degenerate geometry publishes
\* nothing, appends no NaN sample to either window, and leaves the loop
\* running (stated for the valid configurations).
C5_DegenerateSkipped ==
    \A i \in Ticked :
        /\ ValidArgs(inst[i].args)
        /\ WellFormed(Acquired(inst[i]))
        /\ Degenerate(Acquired(inst[i]).keypoints)
        =>
            /\ inst[i].state = "streaming"
            /\ CallsOf(inst[i], "publish") = <<>>
            /\ ~QueueHasNaN(inst[i].coord_moving_average_queue)
            /\ ~QueueHasNaN(inst[i].frame_moving_average_queue)

\* ---- C6 ----------------------------------------------------------------
FailedPublish(c) == c.op = "publish" /\ ~c.arg.delivered

\* C6: a publish call that fails does not end the loop.  The tick goes on to
\* its next call, it makes both publish calls and ends its timing unless the
\* logger's call raises in between, and the loop is left only by another
\* error; the next tick that acquires a valid pose is transformed and
\* smoothed, and published when the loop survives it.
C6_State ==
    \A i \in Ticked :
        (\E k \in 1..Len(inst[i].calls) : FailedPublish(inst[i].calls[k])) =>
            /\ \A k \in 1..Len(inst[i].calls) :
                   FailedPublish(inst[i].calls[k]) =>
                       /\ k < Len(inst[i].calls)
                       /\ inst[i].calls[k + 1].op # "raise"
            /\ inst[i].error \in {"", "ZeroDivisionError", "KeyboardInterrupt"}
            /\ inst[i].error # "ZeroDivisionError" =>
                   /\ Len(CallsOf(inst[i], "publish")) = 2
                   /\ Len(CallsOf(inst[i], "end_loop")) = 1
            /\ inst[i].error = "" => inst[i].state = "streaming"

C6_Step ==
    \A i \in Ticked :
        /\ \E k \in 1..Len(inst[i].calls) : FailedPublish(inst[i].calls[k])
        /\ TickStep(i)
        /\ Acquired(inst'[i]).present
        /\ Acquired(inst'[i]).keypoints \in ValidPoses
        => /\ inst'[i].hist =
                  Append(inst[i].hist,
                         transform_keypoints(inst[i].hand_side,
                                             Acquired(inst'[i]).keypoints))
           /\ inst'[i].state = "streaming" =>
                  Len(CallsOf(inst'[i], "publish")) = 2

Flushed(lg) ==
    \/ lg.logged_data = <<>>
    \/ lg.log_file.intact /\ lg.log_file.frames = lg.logged_data

\* C7: when the process has ended, on whatever path, every constructed
\* instance has had its subscriber stopped and the transport resources
\* released, and its logger's buffered frames are in the log file (stated
\* for the valid configurations).
C7_DrainedAtExit ==
    proc # "alive" =>
        \A i \in Inst :
            /\ ValidArgs(inst[i].args)
            /\ inst[i].state \in {"constructed", "streaming", "crashed"}
            =>
                /\ inst[i].keypoint_subscriber = "stopped"
                /\ zmq_cleaned
                /\ inst[i].keypoint_logger.present =>
                       Flushed(inst[i].keypoint_logger)

\* ---- C8 ----------------------------------------------------------------
\* C8: every tick that acquires a valid frame makes exactly two publish
\* calls, the first on the coords topic and the second on the frame topic of
\* its hand side, both on the configured host and publish port and with the
\* same record (stated for the valid window sizes).
C8_BothTopics ==
    \A i \in Ticked :
        /\ inst[i].args.moving_average_limit >= 1
        /\ WellFormed(Acquired(inst[i]))
        /\ Acquired(inst[i]).keypoints \in ValidPoses
        =>
            LET pubs == CallsOf(inst[i], "publish")
            IN  /\ Len(pubs) = 2
                /\ pubs[1].arg.topic = <<inst[i].args.hand_side, TRANSFORMED_HAND_COORDS>>
                /\ pubs[2].arg.topic = <<inst[i].args.hand_side, TRANSFORMED_HAND_FRAME>>
                /\ \A k \in 1..2 :
                       /\ pubs[k].arg.host = inst[i].args.host
                       /\ pubs[k].arg.port = inst[i].args.keypoint_transform_pub_port
                /\ pubs[1].arg.data = pubs[2].arg.data

\* ---- C9 ----------------------------------------------------------------
\* C9: every record a tick publishes carries the is_relative flag of the
\* frame that tick acquired.
C9_FlagCarried ==
    \A i \in Ticked :
        \A k \in 1..Len(inst[i].calls) :
            inst[i].calls[k].op = "publish" =>
                inst[i].calls[k].arg.data.is_relative = Acquired(inst[i]).is_relative

\* The left hand publishes a relative frame after an absolute one (PoseA is
\* acquired absolute), with the absolute sample still in the window.
C9_Witness ==
    \E i \in Ticked :
        /\ inst[i].hand_side = LEFT
        /\ Len(inst[i].hist) = 2
        /\ inst[i].hist[1] = Transformed[LEFT][PoseA]
        /\ Len(inst[i].coord_moving_average_queue) = 2
        /\ Acquired(inst[i]).is_relative
        /\ Len(CallsOf(inst[i], "publish")) = 2

\* ---- C10 ---------------------------------------------------------------
InvalidArgs(args) ==
    args.hand_side \notin {LEFT, RIGHT} \/ args.moving_average_limit < 1

\* C10: an object constructed with a hand side that is neither left nor
\* right, or with a moving-average limit below 1, is a failed construction:
\* no subscriber, publisher, timer or logger exists and no loop runs.
C10_InvalidConfigFatal ==
    \A i \in Inst :
        inst[i].state # "none" /\ InvalidArgs(inst[i].args) =>
            /\ inst[i].state = "config_error"
            /\ inst[i].keypoint_subscriber = "none"
            /\ ~inst[i].publisher_manager
            /\ ~inst[i].timer
            /\ ~inst[i].keypoint_logger.present

\* ---- C11 ---------------------------------------------------------------
\* C11: the two instances share no state that matters at termination: when
\* both instances log and a termination signal has ended the process, the
\* buffered frames of both loggers are in their log files.
C11_SignalFlushesBoth ==
    /\ proc = "killed"
    /\ \A i \in Inst : inst[i].keypoint_logger.present
    => \A i \in Inst : Flushed(inst[i].keypoint_logger)

\* ---- C12 ---------------------------------------------------------------
\* Step i: the tick of this step logged a frame, the auto-save was due and
\* the log file does not hold the saved buffer afterwards (the write failed).
C12_SaveFailed(i) ==
    LET lg == inst[i].keypoint_logger
        after == inst'[i].keypoint_logger
    IN  /\ TickStep(i)
        /\ lg.present
        /\ lg.auto_save_interval >= 1
        /\ after.frame_counter = lg.frame_counter + 1
        /\ after.frame_counter % lg.auto_save_interval = 0
        /\ ~ /\ after.log_file.intact
             /\ after.log_file.frames # <<>>
             /\ after.log_file.frames[Len(after.log_file.frames)].frame_id
                    = lg.frame_counter

\* The tick whose auto-save failed raises nothing and makes its remaining
\* calls: the second publish and the end of the tick.
C12_Step ==
    \A i \in Inst :
        C12_SaveFailed(i) =>
            /\ inst'[i].state = "streaming"
            /\ inst'[i].error = ""
            /\ Ops(inst'[i]) = <<"start_loop", "recv_keypoints", "publish",
                                 "log_frame", "publish", "end_loop">>

\* A tick that acquires a valid pose after a write failed (the file was left
\* truncated) is published on both topics unless another error ends the loop.
C12_Later ==
    \A i \in Inst :
        /\ TickStep(i)
        /\ inst[i].keypoint_logger.log_file.exists
        /\ ~inst[i].keypoint_logger.log_file.intact
        /\ Acquired(inst'[i]).present
        /\ Acquired(inst'[i]).keypoints \in ValidPoses
        => /\ inst'[i].error \in {"", "FloatingPointError"}
           /\ inst'[i].error = "" =>
                  /\ inst'[i].state = "streaming"
                  /\ Len(CallsOf(inst'[i], "publish")) = 2

\* C12: a write of the log file that fails inside save_data, during the
\* auto-save of a tick, raises nothing into the loop: the tick makes its
\* remaining calls and the ticks after it are still published.
C12_WriteFailureContained == [][C12_Step /\ C12_Later]_vars

\* Two ticks were logged with an auto-save each, the file is left truncated
\* by a write that failed, and the second tick was published and ended.
C12_Witness ==
    \E i \in Ticked :
        /\ inst[i].keypoint_logger.auto_save_interval = 1
        /\ inst[i].keypoint_logger.frame_counter = 2
        /\ inst[i].keypoint_logger.log_file.exists
        /\ ~inst[i].keypoint_logger.log_file.intact
        /\ inst[i].state = "streaming"
        /\ Ops(inst[i]) = <<"start_loop", "recv_keypoints", "publish",
                            "log_frame", "publish", "end_loop">>

\* ---- C13 ---------------------------------------------------------------
\* x, y, z are unit vectors (kept by their directions), pairwise orthogonal,
\* with z = x × y.
C13_Orthonormal(x, y, z) ==
    /\ ~HasNaN(<<x, y, z>>)
    /\ ZeroVec \notin {x, y, z}
    /\ x = Prim(x) /\ y = Prim(y) /\ z = Prim(z)
    /\ Dot(x, y) = 0 /\ Dot(x, z) = 0 /\ Dot(y, z) = 0
    /\ Prim(Cross(x, y)) = z

\* C13: the frame of every record a tick publishes is orthonormal and
\* right-handed, whatever the frames in the window were (stated for the
\* valid configurations and for windows of frames of non-degenerate hands).
C13_PublishedFrameOrthonormal ==
    \A i \in Ticked :
        /\ ValidArgs(inst[i].args)
        /\ \A k \in 1..Len(inst[i].hist) :
               /\ ~HasNaN(inst[i].hist[k].frame)
               /\ C13_Orthonormal(inst[i].hist[k].frame[2],
                                  inst[i].hist[k].frame[3],
                                  inst[i].hist[k].frame[4])
        => \A k \in 1..Len(inst[i].calls) :
               inst[i].calls[k].op = "publish" =>
                   LET frame == inst[i].calls[k].arg.data.frame_vectors
                   IN  C13_Orthonormal(frame[2], frame[3], frame[4])

\* ---- C14 ---------------------------------------------------------------
\* C14: _orthogonalize_frame returns an orthonormal right-handed frame as it
\* is, and what it returns for a non-degenerate triple it returns again when
\* applied to that result.
C14_Idempotent ==
    LET f == <<ortho_call.x_vec, ortho_call.y_vec, ortho_call.z_vec>>
        returned == ortho_call.returned
    IN  /\ Len(returned) >= 1 /\ C13_Orthonormal(f[1], f[2], f[3]) =>
               returned[1] = f
        /\ Len(returned) = 2 /\ ~HasNaN(returned[1]) =>
               /\ C13_Orthonormal(returned[1][1], returned[1][2], returned[1][3])
               /\ returned[2] = returned[1]

\* The orthogonalizer was applied twice, starting from a skewed triple that
\* the first application changed.
C14_Witness ==
    /\ Len(ortho_call.returned) = 2
    /\ ~HasNaN(ortho_call.returned[1])
    /\ Dot(ortho_call.x_vec, ortho_call.y_vec) # 0
    /\ ortho_call.returned[1] #
           <<ortho_call.x_vec, ortho_call.y_vec, ortho_call.z_vec>>

\* ---- C15 ---------------------------------------------------------------
\* The buffer holds the frames logged since the last multiple of the
\* interval: fewer than M, and none when the count is a multiple of M.
C15_Buffer ==
    \A i \in Inst :
        LET lg == inst[i].keypoint_logger
        IN  lg.present /\ lg.auto_save_interval >= 1 =>
                /\ Len(lg.logged_data) = lg.frame_counter % lg.auto_save_interval
                /\ Len(lg.logged_data) <= lg.auto_save_interval

\* A log_frame call whose count reaches a multiple of M saves the buffer
\* with the new frame (the file holds it unless the write failed) and
\* empties the buffer; any other log_frame call appends the frame and
\* leaves the file alone.
C15_Step ==
    \A i \in Inst :
        LET lg == inst[i].keypoint_logger
            after == inst'[i].keypoint_logger
        IN  /\ TickStep(i)
            /\ lg.present /\ lg.auto_save_interval >= 1
            /\ after.frame_counter = lg.frame_counter + 1
            =>
            IF after.frame_counter % lg.auto_save_interval = 0
            THEN /\ after.logged_data = <<>>
                 /\ \/ /\ after.log_file.intact
                       /\ after.log_file.total_frames = Len(lg.logged_data) + 1
                       /\ SubSeq(after.log_file.frames, 1, Len(lg.logged_data))
                              = lg.logged_data
                       /\ after.log_file.frames[Len(lg.logged_data) + 1].frame_id
                              = lg.frame_counter
                    \/ after.log_file = lg.log_file
                    \/ after.log_file.exists /\ ~after.log_file.intact
            ELSE /\ Len(after.logged_data) = Len(lg.logged_data) + 1
                 /\ SubSeq(after.logged_data, 1, Len(lg.logged_data))
                        = lg.logged_data
                 /\ after.log_file = lg.log_file

\* C15: with a logger of interval M >= 1, log_frame saves exactly at the
\* calls whose count of logged frames reaches a multiple of M; the buffer
\* never holds more than M frames and is empty after each auto-save.
C15_AutoSaveEveryM == [](C15_Buffer) /\ [][C15_Step]_vars

\* Two frames were logged with M = 2: the first stayed in the buffer, the
\* second saved both and emptied the buffer.
C15_Witness ==
    \E i \in Ticked :
        LET lg == inst[i].keypoint_logger
        IN  /\ lg.present
            /\ lg.auto_save_interval = 2
            /\ lg.frame_counter = 2
            /\ lg.logged_data = <<>>
            /\ lg.log_file.intact
            /\ lg.log_file.total_frames = 2

\* ---- C16 ---------------------------------------------------------------
\* C16: once a logger has been flushed (its process has ended, or cleanup()
\* has run), its log file holds every frame that was passed to log_frame:
\* frame_counter frames with the frame_ids 0 .. frame_counter - 1 (stated
\* for the valid configurations, and for the files whose last write succeeded
\* and wrote the newest frame).
C16_NoFrameLost ==
    \A i \in Inst :
        LET lg == inst[i].keypoint_logger
        IN  /\ ValidArgs(inst[i].args)
            /\ lg.present
            /\ lg.frame_counter > 0
            /\ proc # "alive" \/ inst[i].keypoint_subscriber = "stopped"
            /\ lg.log_file.intact
            /\ lg.log_file.frames # <<>>
            /\ lg.log_file.frames[Len(lg.log_file.frames)].frame_id
                   = lg.frame_counter - 1
            =>
            /\ lg.log_file.total_frames = lg.frame_counter
            /\ Len(lg.log_file.frames) = lg.frame_counter
            /\ \A k \in 1..Len(lg.log_file.frames) :
                   lg.log_file.frames[k].frame_id = k - 1

\* ---- C17 ---------------------------------------------------------------
\* C17: in a tick that produces, both publish calls come before the call of
\* the logger (stated for the valid configurations).
C17_PublishBeforeLog ==
    \A i \in Ticked :
        ValidArgs(inst[i].args) =>
            \A j \in 1..Len(inst[i].calls), k \in 1..Len(inst[i].calls) :
                /\ inst[i].calls[j].op = "log_frame"
                /\ inst[i].calls[k].op = "publish"
                => k < j

\* ---- C18 ---------------------------------------------------------------
\* The ticks that published: those that reached the moving averages, but
\* for one that raised before its first publish.
C18_Producing(self) ==
    Len(self.hist)
        - (IF self.error \in {"IndexError", "FloatingPointError"} THEN 1 ELSE 0)

\* frame_counter is the number of ticks that published; the frame_ids in
\* the buffer are the last ones given, in order, and those in the file are
\* consecutive and below frame_counter.
C18_Counter ==
    \A i \in Inst :
        LET lg == inst[i].keypoint_logger
        IN  lg.present =>
                /\ proc = "alive" => lg.frame_counter = C18_Producing(inst[i])
                /\ \A k \in 1..Len(lg.logged_data) :
                       lg.logged_data[k].frame_id
                           = lg.frame_counter - Len(lg.logged_data) + k - 1
                /\ \A k \in 1..Len(lg.log_file.frames) :
                       /\ lg.log_file.frames[k].frame_id < lg.frame_counter
                       /\ k > 1 => lg.log_file.frames[k].frame_id
                                       = lg.log_file.frames[k - 1].frame_id + 1

\* A tick that publishes calls log_frame once, with the smoothed keypoints
\* and the re-orthogonalized frame of the record it published, and the frame
\* gets the next frame_id; a tick that publishes nothing leaves the logger
\* as it was.
C18_Step ==
    \A i \in Inst :
        LET lg == inst[i].keypoint_logger
            after == inst'[i].keypoint_logger
            pubs == CallsOf(inst'[i], "publish")
            logs == CallsOf(inst'[i], "log_frame")
        IN  TickStep(i) /\ lg.present =>
                IF pubs # <<>>
                THEN /\ Len(logs) = 1
                     /\ logs[1].arg.keypoints = pubs[1].arg.data.keypoints
                     /\ logs[1].arg.coordinate_frame = pubs[1].arg.data.frame_vectors
                     /\ logs[1].arg.keypoints = inst'[i].averaged_keypoints
                     /\ logs[1].arg.coordinate_frame
                            = inst'[i].averaged_coordinate_frame
                     /\ after.frame_counter = lg.frame_counter + 1
                     /\ LET saved == IF after.logged_data # <<>>
                                     THEN after.logged_data
                                     ELSE IF /\ after.log_file.intact
                                             /\ after.log_file # lg.log_file
                                     THEN after.log_file.frames
                                     ELSE <<>>
                        IN  saved # <<>> =>
                                /\ saved[Len(saved)].frame_id = lg.frame_counter
                                /\ saved[Len(saved)].keypoints = logs[1].arg.keypoints
                                /\ saved[Len(saved)].coordinate_frame
                                       = logs[1].arg.coordinate_frame
                ELSE /\ logs = <<>>
                     /\ after = lg

\* C18: with logging enabled the logger gets one log_frame call per tick
\* that published and none otherwise, with that tick's smoothed keypoints
\* and re-orthogonalized frame; frame_counter counts the producing ticks and
\* the frame_ids run 0, 1, 2, ... across the auto-saves.
C18_OneLogPerProducingTick == [](C18_Counter) /\ [][C18_Step]_vars

\* Two ticks produced with an auto-save each: the second frame, saved after
\* the buffer was cleared, has frame_id 1.
C18_Witness ==
    \E i \in Ticked :
        LET lg == inst[i].keypoint_logger
        IN  /\ lg.present
            /\ lg.auto_save_interval = 1
            /\ lg.frame_counter = 2
            /\ lg.log_file.intact
            /\ Len(lg.log_file.frames) = 1
            /\ lg.log_file.frames[1].frame_id = 1
            /\ Len(CallsOf(inst[i], "log_frame")) = 1

====
